---------------------------- MODULE Spec2Model ----------------------------
(***************************************************************************)
(* A model of dls_barcode/datamatrix/locate_contour.py: ContourLocator,   *)
(* the geometric front end that turns the contours of an image into       *)
(* oriented finder patterns.                                               *)
(*                                                                         *)
(* Conventions of the model                                                *)
(*  - a vertex / vector is a pair <<x, y>> of integers (cv2 contours are   *)
(*    integer pixel coordinates); an edge is a pair <<tail, head>>.        *)
(*  - Python indexes from 0, TLA+ sequences from 1: every index of the     *)
(*    model is the Python index plus one.  The only index arithmetic of    *)
(*    the code, abs(i - j) in (1, len(edges) - 1), is unchanged by that.   *)
(*  - a length is math.sqrt of a sum of integer squares.  The model keeps  *)
(*    the squared length and rewrites each comparison of the code into the *)
(*    equivalent comparison of integers (stated at each place).            *)
(*  - None is the value NONE; a Python exception leaving a function is the *)
(*    outcome "raised".                                                    *)
(***************************************************************************)
EXTENDS Integers, Sequences, FiniteSets, TLC

VARIABLES
    pc,          \* where the modelled call stands
    blocksize,   \* locate_datamatrices argument
    close_size,  \* locate_datamatrices argument
    morphed,     \* TRUE once _do_morph has been invoked by this call
    ncontours,   \* number of vertex lists _get_contours returned
    k,           \* number of those already taken through the pipeline
    verts,       \* the vertex list being processed
    edges,       \* its edge set (the value of _convert_to_edge_set)
    pair,        \* value of _longest_pair_indices on edges, NONE if never called
    calls,       \* names of the functions evaluated on edges, in order
    x_corner,    \* value of _get_shared_vertex in _get_finder_pattern
    fps,         \* the list fps built at line 40
    result       \* value returned to the caller, NONE before the return

vars == <<pc, blocksize, close_size, morphed, ncontours, k, verts, edges,
          pair, calls, x_corner, fps, result>>

NONE == <<>>

-----------------------------------------------------------------------------
(* Bounds of the model *)

\* vertex lists of SpecContour have 0..MaxVerts vertices
MaxVerts == 7
\* vertex lists of SpecContour draw vertices from the first NumPoints of PointList
NumPoints == 4
\* an image of Spec has 0..MaxContours contours
MaxContours == 2
\* the side of a sample polygon of Spec leans 0..MaxSkew pixels off the vertical
MaxSkew == 2

-----------------------------------------------------------------------------
(* Vector arithmetic: numpy on 2-element integer arrays *)

Abs(n) == IF n < 0 THEN -n ELSE n

\* np.subtract(a, b)
subtract(a, b) == <<a[1] - b[1], a[2] - b[2]>>

\* np.add(a, b)
add(a, b) == <<a[1] + b[1], a[2] + b[2]>>

\* unary minus of an array
neg(a) == <<-a[1], -a[2]>>

\* np.dot(a, b)
dot(a, b) == a[1] * b[1] + a[2] * b[2]

\* quadrature_add(*values) ** 2 : the sum under the square root
quadrature_add_sq(v) == v[1] * v[1] + v[2] * v[2]

\* _modulus(vector) ** 2
_modulus_sq(vector) == quadrature_add_sq(vector)

\* _distance(a, b) ** 2
_distance_sq(point_a, point_b) == _modulus_sq(subtract(point_a, point_b))

\* _length(edge) ** 2
_length_sq(edge) == _distance_sq(edge[1], edge[2])

\* abs(_cosine(vec_a, vec_b)) < 0.1.
\* _cosine is dot/(|a||b|).  With |a||b| > 0 the test is
\* 100*dot^2 < |a|^2 |b|^2.  With |a||b| = 0 the dot product is 0 too, numpy
\* yields nan, and nan < 0.1 is False: 100*0 < 0 is FALSE as well.
_cosine_below_tenth(vec_a, vec_b) ==
    100 * dot(vec_a, vec_b) * dot(vec_a, vec_b)
        < _modulus_sq(vec_a) * _modulus_sq(vec_b)

-----------------------------------------------------------------------------
(* Edge-set builder *)

\* The while loop of _pairs_circular (lines 77-87).  idx is the position of
\* the item the next call of next(iterator) yields, x and y are the locals of
\* the generator (y is NONE while it is unbound), out the pairs yielded so far.
RECURSIVE pairs_loop(_, _, _, _, _)
pairs_loop(iterable, idx, x, y, out) ==
    IF idx <= Len(iterable)
    THEN \* y = next(iterator); yield (x, y); x = y
         pairs_loop(iterable, idx + 1, iterable[idx], iterable[idx],
                    Append(out, <<x, iterable[idx]>>))
    ELSE \* StopIteration: yield (y, zeroth), unless y is unbound
         IF y = NONE THEN out ELSE Append(out, <<y, iterable[1]>>)

\* _pairs_circular without the wrap-around pair (the yield of line 83 lost)
mutant_pairs_circular_open(iterable) ==
    IF Len(iterable) = 0
    THEN {[raised |-> TRUE, edges |-> NONE], [raised |-> FALSE, edges |-> <<>>]}
    ELSE {[raised |-> FALSE,
           edges |-> [n \in 1..Len(iterable) - 1 |->
                        <<iterable[n], iterable[n + 1]>>]]}

\* _pairs_circular consumed by list(): the set of outcomes the interpreter can
\* produce.  On an empty iterable, next(iterator) at line 75 raises
\* StopIteration inside the generator body, outside any try: an interpreter
\* with PEP 479 (Python >= 3.7) turns it into a RuntimeError that leaves
\* list(); an older one ends the generator silently.
_pairs_circular(iterable) ==
    IF Len(iterable) = 0
    THEN {[raised |-> TRUE, edges |-> NONE], [raised |-> FALSE, edges |-> <<>>]}
    ELSE {[raised |-> FALSE,
           edges |-> pairs_loop(iterable, 2, iterable[1], NONE, <<>>)]}

\* _convert_to_edge_set: list(self._pairs_circular(vertex_list))
_convert_to_edge_set(vertex_list) == _pairs_circular(vertex_list)

-----------------------------------------------------------------------------
(* Filter cascade *)

\* _longest_pair_indices: np.asarray(lengths).argsort()[-2:][::-1].
\* argsort sorts ascending with numpy's default kind, which is not stable, so
\* among edges of equal length any order is a possible result: the value is
\* any <<i, j>>, i # j, with length i >= length j >= every other length.  The
\* operator is the set of possible values (one build returns the same value
\* each time it is given the same list).  With fewer than two edges the slice
\* is shorter than two and the callers' "i, j = ..." raises: {NONE}.
_longest_pair_indices(es) ==
    IF Len(es) < 2 THEN {NONE}
    ELSE LET lengths == [m \in 1..Len(es) |-> _length_sq(es[m])]
             longest(skip) ==
                 {i \in 1..Len(es) \ skip :
                    \A m \in 1..Len(es) \ skip : lengths[m] <= lengths[i]}
         IN  UNION {{<<i, j>> : j \in longest({i})} : i \in longest({})}

\* _filter_non_trivial with the threshold off by one (> 5)
mutant_filter_non_trivial(edge_set) == Len(edge_set) > 5

\* _filter_non_trivial
_filter_non_trivial(edge_set) == Len(edge_set) > 6

\* _filter_longest_adjacent that also accepts next-but-one edges
mutant_filter_longest_adjacent(es, ij) ==
    Abs(ij[1] - ij[2]) \in {1, 2, Len(es) - 1}

\* _filter_longest_adjacent, ij the value of _longest_pair_indices
_filter_longest_adjacent(es, ij) ==
    Abs(ij[1] - ij[2]) \in {1, Len(es) - 1}

\* _filter_longest_approx_orthogonal with the tolerance 0.5 instead of 0.1
mutant_filter_orthogonal_loose(es, ij) ==
    LET v_i == subtract(es[ij[1]][1], es[ij[1]][2])
        v_j == subtract(es[ij[2]][1], es[ij[2]][2])
    IN  4 * dot(v_i, v_j) * dot(v_i, v_j) < _modulus_sq(v_i) * _modulus_sq(v_j)

\* _filter_longest_approx_orthogonal: v = np.subtract(*edges[x])
_filter_longest_approx_orthogonal(es, ij) ==
    LET v_i == subtract(es[ij[1]][1], es[ij[1]][2])
        v_j == subtract(es[ij[2]][1], es[ij[2]][2])
    IN  _cosine_below_tenth(v_i, v_j)

\* _filter_longest_similar_in_length with the tolerance 1/3 instead of 0.1
mutant_filter_similar_loose(es, ij) ==
    LET a == _length_sq(es[ij[1]])
        b == _length_sq(es[ij[2]])
        hi == IF a >= b THEN a ELSE b
        lo == IF a >= b THEN b ELSE a
    IN  hi < 4 * lo

\* _filter_longest_similar_in_length: abs(l_i - l_j)/abs(l_i + l_j) < 0.1.
\* With l_i >= l_j >= 0 and l_i + l_j > 0 this is 9 l_i < 11 l_j, that is
\* 81 l_i^2 < 121 l_j^2.  (l_i + l_j = 0 divides by zero: see similar_in_length_raises.)
_filter_longest_similar_in_length(es, ij) ==
    LET a == _length_sq(es[ij[1]])
        b == _length_sq(es[ij[2]])
        hi == IF a >= b THEN a ELSE b
        lo == IF a >= b THEN b ELSE a
    IN  81 * hi < 121 * lo

\* The division of _filter_longest_similar_in_length is a division of Python
\* floats: both lengths zero raises ZeroDivisionError.
similar_in_length_raises(es, ij) ==
    _length_sq(es[ij[1]]) = 0 /\ _length_sq(es[ij[2]]) = 0

-----------------------------------------------------------------------------
(* Finder-pattern extractor *)

\* _get_shared_vertex: the first vertex of edge_a equal to a vertex of edge_b
_get_shared_vertex(edge_a, edge_b) ==
    IF      edge_a[1] = edge_b[1] THEN edge_a[1]
    ELSE IF edge_a[1] = edge_b[2] THEN edge_a[1]
    ELSE IF edge_a[2] = edge_b[1] THEN edge_a[2]
    ELSE IF edge_a[2] = edge_b[2] THEN edge_a[2]
    ELSE NONE

\* _get_other_vertex: the first vertex of edge that differs from vertex
_get_other_vertex(vertex, edge) ==
    IF      edge[1] # vertex THEN edge[1]
    ELSE IF edge[2] # vertex THEN edge[2]
    ELSE NONE

\* FinderPattern(x_corner, vec_base, vec_side) at line 150: the three
\* arguments of the constructor call, in its order (raised and shared are the
\* model's record of how _get_finder_pattern ended)
FinderPattern(corner, base, side) ==
    [raised |-> FALSE, shared |-> corner, corner |-> corner,
     base |-> base, side |-> side]

\* _get_finder_pattern, ij the value of _longest_pair_indices.  A None corner
\* or a None other vertex makes "-x_corner" / np.add raise TypeError; shared
\* records what _get_shared_vertex returned.
_get_finder_pattern(es, ij) ==
    LET edge_a == es[ij[1]]
        edge_b == es[ij[2]]
        corner == _get_shared_vertex(edge_a, edge_b)
        c == _get_other_vertex(corner, edge_a)
        d == _get_other_vertex(corner, edge_b)
    IN  IF corner = NONE \/ c = NONE \/ d = NONE
        THEN [raised |-> TRUE, shared |-> corner, corner |-> NONE,
              base |-> NONE, side |-> NONE]
        ELSE LET vec_c == add(neg(corner), c)
                 vec_d == add(neg(corner), d)
             IN  IF vec_c[1] * vec_d[2] - vec_c[2] * vec_d[1] < 0
                 THEN FinderPattern(corner, vec_c, vec_d)
                 ELSE FinderPattern(corner, vec_d, vec_c)

-----------------------------------------------------------------------------
(* One edge set through lines 34-40 of locate_datamatrices *)

\* pipeline in which an edge set the orthogonality filter rejects still
\* reaches the similar-length filter
mutant_pipeline_no_short_circuit(es, ij) ==
    LET lpi == "_longest_pair_indices"
        c1 == <<"_filter_non_trivial">>
        c2 == c1 \o <<"_filter_longest_adjacent", lpi>>
        c3 == c2 \o <<"_filter_longest_approx_orthogonal", lpi>>
        c4 == c3 \o <<"_filter_longest_similar_in_length", lpi>>
        c5 == c4 \o <<"_get_finder_pattern", lpi>>
        end(c, v) == [calls |-> c, verdict |-> v, fp |-> NONE]
    IN  IF ~ _filter_non_trivial(es) THEN end(c1, "dropped")
        ELSE IF ij = NONE THEN end(c2, "raised")
        ELSE IF ~ _filter_longest_adjacent(es, ij) THEN end(c2, "dropped")
        ELSE IF ~ _filter_longest_approx_orthogonal(es, ij)
             THEN end(c4, "dropped")
        ELSE IF similar_in_length_raises(es, ij) THEN end(c4, "raised")
        ELSE IF ~ _filter_longest_similar_in_length(es, ij)
             THEN end(c4, "dropped")
        ELSE LET fp == _get_finder_pattern(es, ij)
             IN  [calls |-> c5,
                  verdict |-> IF fp.raised THEN "raised" ELSE "kept",
                  fp |-> fp]

\* The path of one edge set through the four chained filters and the list
\* comprehension: the functions evaluated on it, in order, and how it ends.
\* ij is the value _longest_pair_indices has on this edge set.  (Python 3
\* chains the filters lazily, Python 2 applies each to the whole list; the
\* functions evaluated on one edge set, and their order, are the same.)
pipeline(es, ij) ==
    LET lpi == "_longest_pair_indices"
        c1 == <<"_filter_non_trivial">>
        c2 == c1 \o <<"_filter_longest_adjacent", lpi>>
        c3 == c2 \o <<"_filter_longest_approx_orthogonal", lpi>>
        c4 == c3 \o <<"_filter_longest_similar_in_length", lpi>>
        c5 == c4 \o <<"_get_finder_pattern", lpi>>
        end(c, v) == [calls |-> c, verdict |-> v, fp |-> NONE]
    IN  IF ~ _filter_non_trivial(es) THEN end(c1, "dropped")
        ELSE IF ij = NONE THEN end(c2, "raised")
        ELSE IF ~ _filter_longest_adjacent(es, ij) THEN end(c2, "dropped")
        ELSE IF ~ _filter_longest_approx_orthogonal(es, ij)
             THEN end(c3, "dropped")
        ELSE IF similar_in_length_raises(es, ij) THEN end(c4, "raised")
        ELSE IF ~ _filter_longest_similar_in_length(es, ij)
             THEN end(c4, "dropped")
        ELSE LET fp == _get_finder_pattern(es, ij)
             IN  [calls |-> c5,
                  verdict |-> IF fp.raised THEN "raised" ELSE "kept",
                  fp |-> fp]

\* pair: what _longest_pair_indices returned, NONE when it was not called
pair_seen(p, ij) ==
    IF \E n \in 1..Len(p.calls) : p.calls[n] = "_longest_pair_indices"
    THEN ij ELSE NONE

\* x_corner: what _get_shared_vertex returned, NONE when it was not called
corner_seen(p) == IF p.fp = NONE THEN NONE ELSE p.fp.shared

\* fps after this edge set: [... for es in edge_sets] appends in list order
fps_after(old, p) ==
    IF p.verdict = "kept"
    THEN Append(old, [corner |-> p.fp.corner, base |-> p.fp.base,
                      side |-> p.fp.side])
    ELSE old

-----------------------------------------------------------------------------
(* Inputs *)

\* arguments of locate_datamatrices: odd and even block sizes, close sizes
\* with and without a structuring element
BlockSizes == {2, 3}
CloseSizes == {0, 1}

\* what cv2.adaptiveThreshold / cv2.getStructuringElement require
ValidParams(b, c) == b % 2 = 1 /\ b > 1 /\ c >= 1

RECURSIVE Reverse(_)
Reverse(s) == IF s = <<>> THEN <<>> ELSE Append(Reverse(Tail(s)), Head(s))
Rotate(s, r) == SubSeq(s, r + 1, Len(s)) \o SubSeq(s, 1, r)

\* Sample polygons of Spec: a square-ish outline with corner (0,0), base
\* (0,0)-(10,0), side (0,0)-(sk, h), and a staircase of m notch vertices
\* between the far ends (3 + m vertices); h = 10 + 3 st.
NotchedL(sk, st, m) ==
    LET h == 10 + 3 * st
        stair == << <<10, 3>>, <<7, 3>>, <<7, 6>>, <<4, 6>>, <<4, h>> >>
    IN  << <<0, 0>>, <<10, 0>> >> \o SubSeq(stair, 1, m) \o << <<sk, h>> >>

\* a thin bar whose two longest edges are its two long sides
Bar == << <<0, 0>>, <<20, 0>>, <<20, 1>>, <<20, 2>>, <<19, 2>>, <<0, 2>>,
          <<0, 1>> >>

BasePolygons ==
    {NotchedL(sk, st, m) : sk \in 0..MaxSkew, st \in 0..1, m \in 3..5}
        \cup {Bar}

\* each listed in both directions, starting from its first or second vertex
Shapes ==
    {Rotate(IF rev THEN Reverse(q) ELSE q, r) :
        q \in BasePolygons, rev \in BOOLEAN, r \in 0..1}

\* Vertex lists of SpecContour: every list of 0..MaxVerts vertices over Points
PointList == << <<0, 0>>, <<10, 0>>, <<5, 5>>, <<1, 10>>, <<0, 8>>, <<9, 9>> >>
Points == {PointList[n] : n \in 1..NumPoints}
VertexLists == UNION {[1..n -> Points] : n \in 0..MaxVerts}

-----------------------------------------------------------------------------
(* locate_datamatrices, one call *)

Init ==
    /\ pc = "called"
    /\ blocksize \in BlockSizes
    /\ close_size \in CloseSizes
    /\ morphed = FALSE
    /\ ncontours = 0
    /\ k = 0
    /\ verts = NONE
    /\ edges = NONE
    /\ pair = NONE
    /\ calls = <<>>
    /\ x_corner = NONE
    /\ fps = <<>>
    /\ result = NONE

\* line 25: _do_morph is the first statement of locate_datamatrices; the
\* arguments reach cv2 unchecked.  cv2 returns an image for valid arguments;
\* for the others what it does (cv2.error, or an image) is cv2's business.
DoMorph ==
    /\ pc = "called"
    /\ morphed' = TRUE
    /\ \E cv2_raises \in BOOLEAN :
         /\ ValidParams(blocksize, close_size) => ~ cv2_raises
         /\ pc' = IF cv2_raises THEN "raised" ELSE "morphed"
    /\ UNCHANGED <<blocksize, close_size, ncontours, k, verts, edges, pair,
                   calls, x_corner, fps, result>>

\* line 28: _get_contours returns a list of vertex lists
GetContours ==
    /\ pc = "morphed"
    /\ ncontours' \in 0..MaxContours
    /\ pc' = "contours"
    /\ UNCHANGED <<blocksize, close_size, morphed, k, verts, edges, pair,
                   calls, x_corner, fps, result>>

\* lines 31-40 for the next vertex list: cv2.approxPolyDP yields at least one
\* vertex per contour
ProcessContour ==
    /\ pc = "contours"
    /\ k < ncontours
    /\ \E vertex_list \in Shapes :
       \E conv \in _convert_to_edge_set(vertex_list) :
       \E ij \in (IF conv.raised THEN {NONE}
                  ELSE _longest_pair_indices(conv.edges)) :
         /\ verts' = vertex_list
         /\ k' = k + 1
         /\ IF conv.raised
            THEN /\ pc' = "raised"
                 /\ edges' = NONE
                 /\ UNCHANGED <<pair, calls, x_corner, fps>>
            ELSE LET p == pipeline(conv.edges, ij)
                 IN  /\ edges' = conv.edges
                     /\ pair' = pair_seen(p, ij)
                     /\ calls' = p.calls
                     /\ x_corner' = corner_seen(p)
                     /\ fps' = fps_after(fps, p)
                     /\ pc' = IF p.verdict = "raised" THEN "raised"
                              ELSE "contours"
    /\ UNCHANGED <<blocksize, close_size, morphed, ncontours, result>>

\* line 42: return fps
Return ==
    /\ pc = "contours"
    /\ k = ncontours
    /\ result' = fps
    /\ pc' = "returned"
    /\ UNCHANGED <<blocksize, close_size, morphed, ncontours, k, verts, edges,
                   pair, calls, x_corner, fps>>

Next == DoMorph \/ GetContours \/ ProcessContour \/ Return

Spec == Init /\ [][Next]_vars

-----------------------------------------------------------------------------
(* One vertex list through the edge-set builder, the filters and the        *)
(* extractor: the per-contour function of locate_datamatrices on arbitrary  *)
(* vertex lists, the empty one included.                                    *)

InitContour ==
    /\ pc = "vertices"
    /\ verts \in VertexLists
    /\ blocksize = 3
    /\ close_size = 1
    /\ morphed = TRUE
    /\ ncontours = 1
    /\ k = 0
    /\ edges = NONE
    /\ pair = NONE
    /\ calls = <<>>
    /\ x_corner = NONE
    /\ fps = <<>>
    /\ result = NONE

\* line 31: _convert_to_edge_set(verts)
Convert ==
    /\ pc = "vertices"
    /\ \E conv \in _convert_to_edge_set(verts) :
         /\ edges' = conv.edges
         /\ pc' = IF conv.raised THEN "raised" ELSE "edges"
    /\ UNCHANGED <<blocksize, close_size, morphed, ncontours, k, verts, pair,
                   calls, x_corner, fps, result>>

\* lines 34-40 on the edge set
Extract ==
    /\ pc = "edges"
    /\ \E ij \in _longest_pair_indices(edges) :
         LET p == pipeline(edges, ij)
         IN  /\ pair' = pair_seen(p, ij)
             /\ calls' = p.calls
             /\ x_corner' = corner_seen(p)
             /\ fps' = fps_after(fps, p)
             /\ pc' = p.verdict
    /\ k' = k + 1
    /\ UNCHANGED <<blocksize, close_size, morphed, ncontours, verts, edges,
                   result>>

NextContour == Convert \/ Extract

SpecContour == InitContour /\ [][NextContour]_vars

-----------------------------------------------------------------------------
(* Vocabulary of the properties, stated without the operators above *)

Cross(a, b) == a[1] * b[2] - a[2] * b[1]
Inner(a, b) == a[1] * b[1] + a[2] * b[2]
Norm2(a) == a[1] * a[1] + a[2] * a[2]
EdgeNorm2(e) == Norm2(<<e[2][1] - e[1][1], e[2][2] - e[1][2]>>)
Ends(e) == {e[1], e[2]}
Max2(a, b) == IF a >= b THEN a ELSE b
Min2(a, b) == IF a >= b THEN b ELSE a
Called(name) == \E n \in 1..Len(calls) : calls[n] = name

\* |cos| of the angle between a and b is below 0.1
NearlyOrthogonal(a, b) == 100 * Inner(a, b) * Inner(a, b) < Norm2(a) * Norm2(b)

\* | |a| - |b| | / (|a| + |b|) < 0.1, given the squared lengths
NearlyEqualLengths(a2, b2) == 81 * Max2(a2, b2) < 121 * Min2(a2, b2)

\* the edge set es, with longest pair ij, satisfies the four filter predicates
SatisfiesAllFour(es, ij) ==
    /\ Len(es) > 6
    /\ ij # NONE
    /\ LET e1 == es[ij[1]]
           e2 == es[ij[2]]
           d == IF ij[1] >= ij[2] THEN ij[1] - ij[2] ELSE ij[2] - ij[1]
       IN  /\ d = 1 \/ d = Len(es) - 1
           /\ NearlyOrthogonal(<<e1[2][1] - e1[1][1], e1[2][2] - e1[1][2]>>,
                               <<e2[2][1] - e2[1][1], e2[2][2] - e2[1][2]>>)
           /\ NearlyEqualLengths(EdgeNorm2(e1), EdgeNorm2(e2))

\* the functions run on one edge set, in the order of lines 34-40
StageOrder ==
    << "_filter_non_trivial", "_filter_longest_adjacent",
       "_filter_longest_approx_orthogonal",
       "_filter_longest_similar_in_length", "_get_finder_pattern" >>

\* the filter at position stage of StageOrder accepts the edge set in edges
StageAccepts(stage) ==
    LET e1 == edges[pair[1]]
        e2 == edges[pair[2]]
    IN  CASE stage = 1 -> Len(edges) > 6
          [] stage = 2 -> \/ pair[1] - pair[2] \in {1, -1}
                          \/ pair[1] - pair[2] \in {Len(edges) - 1,
                                                    1 - Len(edges)}
          [] stage = 3 -> NearlyOrthogonal(
                              <<e1[2][1] - e1[1][1], e1[2][2] - e1[1][2]>>,
                              <<e2[2][1] - e2[1][1], e2[2][2] - e2[1][2]>>)
          [] stage = 4 -> NearlyEqualLengths(EdgeNorm2(e1), EdgeNorm2(e2))

BadParams == blocksize % 2 = 0 \/ blocksize <= 1 \/ close_size <= 0

-----------------------------------------------------------------------------
\* C1: every finder pattern built by locate_datamatrices has a strictly
\* positive signed cross product base.x*side.y - base.y*side.x.
C1_CrossProductPositive ==
    \A n \in 1..Len(fps) : Cross(fps[n].base, fps[n].side) > 0

\* C3: each contour taken through the pipeline adds exactly one finder
\* pattern, at the end of the list and with its corner on that contour, when
\* its edge set satisfies the four filter predicates (more than 6 edges, the
\* two longest circularly adjacent, |cos| < 0.1, relative length difference
\* < 0.1), and leaves the list as it was otherwise; the call then returns
\* that list.
C3_OnePatternPerPassingContour ==
    /\ [][k' = k + 1 =>
             IF SatisfiesAllFour(edges', pair')
             THEN /\ Len(fps') = Len(fps) + 1
                  /\ SubSeq(fps', 1, Len(fps)) = fps
                  /\ \E n \in 1..Len(verts') :
                        verts'[n] = fps'[Len(fps')].corner
                  /\ pc' = "contours"
             ELSE /\ fps' = fps
                  /\ pc' = "contours"]_vars
    /\ [][pc' = "returned" => result' = fps /\ k = ncontours]_vars

\* C3 witness: a call returned one pattern for two contours, the second of
\* which fails the predicates.
C3_Witness ==
    /\ pc = "returned"
    /\ ncontours = 2
    /\ Len(result) = 1
    /\ ~ SatisfiesAllFour(edges, pair)

\* C4: for every finder pattern built, the cosine of the angle between its
\* base and side vectors has magnitude below 0.1:
\* 100 (base.side)^2 < |base|^2 |side|^2.
C4_BaseSideNearlyOrthogonal ==
    \A n \in 1..Len(fps) : NearlyOrthogonal(fps[n].base, fps[n].side)

\* C4 witness: a returned pattern whose vectors are not exactly orthogonal.
C4_Witness ==
    /\ pc = "returned"
    /\ \E n \in 1..Len(result) : Inner(result[n].base, result[n].side) # 0

\* C5: for every finder pattern built, the lengths of base and side differ
\* by less than 0.1 of their sum, and the pattern just built has the lengths
\* of the two edges the similar-length filter accepted.
C5_BaseSideSimilarLength ==
    /\ \A n \in 1..Len(fps) :
          NearlyEqualLengths(Norm2(fps[n].base), Norm2(fps[n].side))
    /\ (Called("_get_finder_pattern") /\ pc # "raised") =>
          /\ Len(fps) > 0
          /\ LET fp == fps[Len(fps)]
                 a2 == EdgeNorm2(edges[pair[1]])
                 b2 == EdgeNorm2(edges[pair[2]])
             IN  /\ Max2(Norm2(fp.base), Norm2(fp.side)) = Max2(a2, b2)
                 /\ Min2(Norm2(fp.base), Norm2(fp.side)) = Min2(a2, b2)

\* C5 witness: a returned pattern whose vectors differ in length.
C5_Witness ==
    /\ pc = "returned"
    /\ \E n \in 1..Len(result) :
          Norm2(result[n].base) # Norm2(result[n].side)

\* C6: for a vertex list v0..v(n-1) with n >= 2, _convert_to_edge_set returns
\* exactly n edges, edge i being (v_i, v_((i+1) mod n)), so the head of each
\* edge is the tail of the next one, circularly.
C6_EdgeSetClosure ==
    (pc # "vertices" /\ Len(verts) >= 2) =>
        /\ pc # "raised"
        /\ Len(edges) = Len(verts)
        /\ \A n \in 1..Len(verts) :
              /\ edges[n] = <<verts[n], verts[(n % Len(verts)) + 1]>>
              /\ edges[n][2] = edges[(n % Len(edges)) + 1][1]

\* C6 witness: a two-vertex list converted into its two edges.
C6_Witness ==
    /\ pc = "edges"
    /\ Len(verts) = 2
    /\ verts[1] # verts[2]
    /\ edges = << <<verts[1], verts[2]>>, <<verts[2], verts[1]>> >>

\* C7: _convert_to_edge_set on an empty and on a one-vertex list terminates
\* normally with the empty edge sequence; no error escapes.
C7_ShortListsGiveNoEdges ==
    (pc # "vertices" /\ Len(verts) <= 1) => (pc # "raised" /\ edges = <<>>)

\* C8: with a blocksize that is even or <= 1, or a close_size <= 0, the call
\* is rejected before _do_morph is invoked and produces no finder pattern.
C8_BadParamsRejectedBeforeMorph ==
    BadParams => (~ morphed /\ fps = <<>> /\ result = NONE)

\* C9: on each edge set the functions run in the order non-trivial,
\* longest-adjacent, orthogonality, similar-length, _get_finder_pattern; each
\* one runs only if every earlier one accepted the edge set; an edge set that
\* is dropped was rejected by the last one run; and _longest_pair_indices is
\* invoked only on edge sets with more than 6 edges, where it yields two
\* distinct indices.
C9_FiltersShortCircuitInOrder ==
    LET run == SelectSeq(calls, LAMBDA c : c # "_longest_pair_indices")
    IN  /\ Len(run) <= Len(StageOrder)
        /\ run = SubSeq(StageOrder, 1, Len(run))
        /\ \A n \in 1..Len(run) - 1 : StageAccepts(n)
        /\ pc = "dropped" => (Len(run) <= 4 /\ ~ StageAccepts(Len(run)))
        /\ pc = "kept" => Len(run) = 5
        /\ Called("_longest_pair_indices") =>
              /\ Len(edges) > 6
              /\ pair \in (1..Len(edges)) \X (1..Len(edges))
              /\ pair[1] # pair[2]

\* C9 witness: an edge set rejected by the orthogonality filter, after which
\* neither the similar-length filter nor _get_finder_pattern ran.
C9_Witness ==
    /\ pc = "dropped"
    /\ Called("_filter_longest_approx_orthogonal")
    /\ ~ Called("_filter_longest_similar_in_length")
    /\ ~ Called("_get_finder_pattern")

\* C10: for an edge set that passed the non-trivial and longest-adjacent
\* filters, the two edges chosen by _longest_pair_indices share a vertex; in
\* _get_finder_pattern _get_shared_vertex does not return None, the corner is
\* an endpoint of both edges, and {base, side} = {P1 - corner, P2 - corner},
\* P1 and P2 being the other endpoints of the two edges.
C10_LongestAdjacentShareCorner ==
    /\ Called("_filter_longest_approx_orthogonal") =>
          Ends(edges[pair[1]]) \cap Ends(edges[pair[2]]) # {}
    /\ Called("_get_finder_pattern") =>
          /\ pc = "kept"
          /\ x_corner # NONE
          /\ x_corner \in Ends(edges[pair[1]]) \cap Ends(edges[pair[2]])
          /\ Len(fps) > 0
          /\ LET fp == fps[Len(fps)]
                 P1 == CHOOSE v \in Ends(edges[pair[1]]) : v # x_corner
                 P2 == CHOOSE v \in Ends(edges[pair[2]]) : v # x_corner
             IN  /\ fp.corner = x_corner
                 /\ {fp.base, fp.side} =
                        {<<P1[1] - x_corner[1], P1[2] - x_corner[2]>>,
                         <<P2[1] - x_corner[1], P2[2] - x_corner[2]>>}

\* C10 witness: a pattern extracted from a corner between the last and the
\* first edge of the list.
C10_Witness ==
    /\ pc = "kept"
    /\ {pair[1], pair[2]} = {1, Len(edges)}
    /\ Len(fps) = 1

=============================================================================
